---------------------------- MODULE Spec2Model ----------------------------
(***************************************************************************)
(* Model of pyglidein's submit.py: the PBS script generator (SubmitPBS),   *)
(* the HTCondor submit-file generator (SubmitCondor) and the shell         *)
(* environment wrapper that SubmitCondor.make_env_wrapper writes.          *)
(*                                                                         *)
(* One behaviour is one call of submit(state) on one of the two classes,   *)
(* or one run of the generated wrapper script on a worker node.            *)
(* Files are sequences of lines; a line is a record with a key, the        *)
(* integers formatted into it and the strings formatted into it.           *)
(* Memory, disk and cpu requests are integers (MB, GB, cores).             *)
(***************************************************************************)
EXTENDS Integers, Sequences, FiniteSets

VARIABLES
    sched,      \* "PBS", "Condor": the class whose submit() runs; "Wrapper": the script runs
    state,      \* the resource request passed to submit(state)
    config,     \* self.config, flattened; optional keys are presence flags
    fs,         \* os.path.isfile() of Glidein.executable and Glidein.tarball
    pc,         \* position in the running method
    num_cpus,   \* local of SubmitPBS.write_submit_file
    mem,        \* local of SubmitPBS.write_submit_file
    mem_bound,  \* whether the local mem has been assigned
    files,      \* the generated files
    raised,     \* the exception that left submit(), or "none"
    cmdCalls,   \* number of subprocess.call invocations
    rc,         \* exit status of the submit command, NoRc before it ran
    ad,         \* wrapper run: the AssignedGPUs value of the machine ad, as characters
    CUDA_VISIBLE_DEVICES, \* wrapper run: that environment variable ("" when unset)
    GPUS,       \* wrapper run: shell variable
    GPUS_NO_DIGITS \* wrapper run: shell variable

vars == <<sched, state, config, fs, pc, num_cpus, mem, mem_bound, files, raised,
          cmdCalls, rc, ad, CUDA_VISIBLE_DEVICES, GPUS, GPUS_NO_DIGITS>>

runVars == <<ad, CUDA_VISIBLE_DEVICES, GPUS, GPUS_NO_DIGITS>>
pbsLocals == <<num_cpus, mem, mem_bound>>

-----------------------------------------------------------------------------
(* Bounds of the model *)
MaxCpus == 2
MaxMemory == 12
MaxDisk == 2
MaxGpus == 1
MaxMemPerCore == 3
MaxFieldLen == 3

-----------------------------------------------------------------------------
(* Lines and files *)

Line(k, n, s) == [k |-> k, n |-> n, s |-> s]

NoFile == [lines |-> <<>>, open |-> FALSE, created |-> FALSE, mode_x |-> FALSE]

\* open(filename, 'w'): the file is created or truncated
OpenW == [lines |-> <<>>, open |-> TRUE, created |-> TRUE, mode_x |-> FALSE]

\* Submit.write_line / file.write: append to an open file
write_line(f, lines) == [f EXCEPT !.lines = @ \o lines]

\* leaving the with-block, normally or by an exception
Close(f) == [f EXCEPT !.open = FALSE]

HasLine(f, k) == \E i \in 1..Len(f.lines) : f.lines[i].k = k

\* the first line of file f with key k
TheLine(f, k) == f.lines[CHOOSE i \in 1..Len(f.lines) : f.lines[i].k = k]

CountLines(f, k) == Cardinality({i \in 1..Len(f.lines) : f.lines[i].k = k})

-----------------------------------------------------------------------------
(* Arithmetic of the generators *)

\* int(x * 1.1) and "%d" % (x * 1.1) for an integer x >= 0: the float product
\* truncated toward zero
TimesOnePointOneRounded(x) == (11 * x + 5) \div 10
TimesOnePointOneInverted(x) == (10 * x) \div 11
TimesOnePointOne(x) == (11 * x) \div 10

\* "%d" % (mem / num_cpus): true division, truncated by the format
PerCoreCpu(m, n) == m \div n

\* "%d" % ((mem / num_cpus) * 1.1)
PerCoreGpuBug(m, n) == m \div n
PerCoreGpu(m, n) == (11 * m) \div (10 * n)

\* the while condition of the cpu escalation
NeedsMoreCpusBug(memory, mem_per_core, n) == memory >= mem_per_core * n + mem_per_core
NeedsMoreCpus(memory, mem_per_core, n) == memory > mem_per_core * n

\* the elif condition that assigns mem for cpu jobs
CeilingCoversBug(memory, mem_per_core, n) == n * mem_per_core > memory
CeilingCovers(memory, mem_per_core, n) == n * mem_per_core >= memory

\* the truth value of subprocess.call's return code
LaunchFailedBug(code) == code = 0
LaunchFailed(code) == code # 0

NoRc == -1

-----------------------------------------------------------------------------
(* SubmitPBS *)

\* the lines of write_general_header written before the memory directive
write_general_header_ppn(num_nodes, n, num_gpus) ==
    << Line("shebang", <<>>, <<>>),
       IF num_gpus = 0
         THEN Line("nodes", <<num_nodes, n>>, <<>>)
         ELSE Line("nodes", <<num_nodes, n, num_gpus>>, <<>>) >>

\* the memory directive and the rest of write_general_header
write_general_header_mem(m, wall_time_hours, n, num_gpus) ==
    << IF num_gpus = 0
         THEN Line("mem", <<PerCoreCpu(m, n), PerCoreCpu(m, n)>>, <<>>)
         ELSE Line("mem", <<PerCoreGpu(m, n), PerCoreGpu(m, n)>>, <<>>),
       Line("walltime", <<wall_time_hours>>, <<>>),
       Line("stdout", <<>>, <<>>),
       Line("stderr", <<>>, <<>>) >>

write_cluster_specific(name) == << Line(name, <<>>, <<>>), Line("", <<>>, <<>>) >>

write_glidein_variables(m, n, has_cvmfs, num_gpus) ==
    << Line("MEMORY", <<IF num_gpus # 0 THEN TimesOnePointOne(m) ELSE m>>, <<>>),
       Line("CPUS", <<n>>, <<>>) >>
    \o (IF num_gpus # 0
          THEN << Line("GPUS", <<>>, <<"$CUDA_VISIBLE_DEVICES">>),
                  Line("GPUS", <<>>, <<"CUDA$GPUS">>) >>
          ELSE <<>>)
    \o << Line("CVMFS", <<>>, <<IF has_cvmfs THEN "True" ELSE "False">>),
          Line("", <<>>, <<>>) >>

write_glidin_part(has_tarball) ==
    << Line("cd", <<>>, <<"local_dir">>), Line("", <<>>, <<>>) >>
    \o (IF has_tarball THEN << Line("ln", <<>>, <<"tarball">>) >> ELSE <<>>)
    \o << Line("ln", <<>>, <<"executable">>), Line("run", <<>>, <<"executable">>) >>

\* with open(filename,'w') as f: num_cpus = state["cpus"]
PBS_Open ==
    /\ sched = "PBS" /\ pc = "open"
    /\ files' = [files EXCEPT !.submit = OpenW]
    /\ num_cpus' = state.cpus
    /\ pc' = "loop"
    /\ UNCHANGED <<sched, state, config, fs, mem, mem_bound, raised, cmdCalls, rc, runVars>>

\* one evaluation of the while condition (skipped altogether for gpu jobs)
PBS_Loop ==
    /\ sched = "PBS" /\ pc = "loop"
    /\ IF state.gpus = 0 /\ NeedsMoreCpus(state.memory, config.mem_per_core, num_cpus)
         THEN /\ num_cpus' = num_cpus + 1
              /\ pc' = "loop"
         ELSE /\ num_cpus' = num_cpus
              /\ pc' = "resolve"
    /\ UNCHANGED <<sched, state, config, fs, mem, mem_bound, files, raised, cmdCalls, rc, runVars>>

\* if state["gpus"] > 0: mem = ...  elif ...: mem = ...   (no else branch)
PBS_Resolve ==
    /\ sched = "PBS" /\ pc = "resolve"
    /\ IF state.gpus > 0
         THEN mem' = state.memory /\ mem_bound' = TRUE
         ELSE IF CeilingCovers(state.memory, config.mem_per_core, num_cpus)
                THEN mem' = num_cpus * config.mem_per_core /\ mem_bound' = TRUE
                ELSE UNCHANGED <<mem, mem_bound>>
    /\ pc' = "header"
    /\ UNCHANGED <<sched, state, config, fs, num_cpus, files, raised, cmdCalls, rc, runVars>>

\* self.write_general_header(f, mem = mem, ..., num_cpus = num_cpus, num_gpus = state["gpus"])
PBS_Header ==
    /\ sched = "PBS" /\ pc = "header"
    /\ IF ~mem_bound
         THEN /\ raised' = "UnboundLocalError"
              /\ files' = [files EXCEPT !.submit = Close(@)]
              /\ pc' = "done"
         ELSE IF num_cpus = 0
           THEN /\ raised' = "ZeroDivisionError"
                /\ files' = [files EXCEPT !.submit =
                       Close(write_line(@, write_general_header_ppn(1, num_cpus, state.gpus)))]
                /\ pc' = "done"
           ELSE /\ raised' = raised
                /\ files' = [files EXCEPT !.submit =
                       write_line(@, write_general_header_ppn(1, num_cpus, state.gpus)
                                     \o write_general_header_mem(mem, config.walltime_hrs,
                                                                 num_cpus, state.gpus))]
                /\ pc' = "custom"
    /\ UNCHANGED <<sched, state, config, fs, pbsLocals, cmdCalls, rc, runVars>>

\* the optional custom_header and custom_middle blocks
PBS_Custom ==
    /\ sched = "PBS" /\ pc = "custom"
    /\ files' = [files EXCEPT !.submit = write_line(@,
           (IF config.custom_header THEN write_cluster_specific("custom_header") ELSE <<>>)
           \o (IF config.custom_middle THEN write_cluster_specific("custom_middle") ELSE <<>>))]
    /\ pc' = "variables"
    /\ UNCHANGED <<sched, state, config, fs, pbsLocals, raised, cmdCalls, rc, runVars>>

\* self.write_glidein_variables(f, mem = mem, num_cpus = state["cpus"], ...)
PBS_Variables ==
    /\ sched = "PBS" /\ pc = "variables"
    /\ files' = [files EXCEPT !.submit = write_line(@,
           write_glidein_variables(mem, state.cpus, state.cvmfs, state.gpus))]
    /\ pc' = "glidein"
    /\ UNCHANGED <<sched, state, config, fs, pbsLocals, raised, cmdCalls, rc, runVars>>

\* write_glidin_part, the optional custom_end block, and the end of the with-block
PBS_Glidein ==
    /\ sched = "PBS" /\ pc = "glidein"
    /\ files' = [files EXCEPT !.submit = Close(write_line(@,
           write_glidin_part(config.tarball)
           \o (IF config.custom_end THEN write_cluster_specific("custom_end") ELSE <<>>)))]
    /\ pc' = "call"
    /\ UNCHANGED <<sched, state, config, fs, pbsLocals, raised, cmdCalls, rc, runVars>>

\* if subprocess.call(cmd, shell=True): raise Exception('failed to launch glidein')
Call ==
    /\ sched \in {"PBS", "Condor"} /\ pc = "call"
    /\ \E code \in {0, 1} :
         /\ rc' = code
         /\ raised' = IF LaunchFailed(code) THEN "failed to launch glidein" ELSE raised
    /\ cmdCalls' = cmdCalls + 1
    /\ pc' = "done"
    /\ UNCHANGED <<sched, state, config, fs, pbsLocals, files, runVars>>

-----------------------------------------------------------------------------
(* SubmitCondor *)

\* os.path.isfile(self.config["Glidein"]["executable"])
ExecutableIsFileBug == TRUE
ExecutableIsFile == fs.executable

\* os.path.isfile(self.config["Glidein"]["tarball"])
TarballIsFile == fs.tarball

\* the Python text of the wrapper script, one line per shell statement, and the
\* final env -i command with the CustomEnv pairs and the executable
env_wrapper_script(custom_env) ==
    << Line("#!/bin/sh", <<>>, <<>>),
       Line("read", <<>>, <<"CPUS">>),
       Line("read", <<>>, <<"MEMORY">>),
       Line("read", <<>>, <<"DISK">>),
       Line("read", <<>>, <<"GPUS">>),
       Line("fallback", <<>>, <<"GPUS", "CUDA_VISIBLE_DEVICES">>),
       Line("strip_digits", <<>>, <<"GPUS_NO_DIGITS">>),
       Line("classify", <<>>, <<"GPUS">>),
       Line("sentinel", <<>>, <<"GPUS">>),
       Line("env -i", <<>>, <<"CPUS", "GPUS", "MEMORY", "DISK">>
                              \o (IF custom_env THEN <<"CustomEnv">> ELSE <<>>)
                              \o <<"executable">>) >>

\* make_env_wrapper: write the script, add the execute bits, close
make_env_wrapper ==
    /\ sched = "Condor" /\ pc = "wrapper"
    /\ files' = [files EXCEPT !.wrapper =
           Close([write_line(OpenW, env_wrapper_script(config.CustomEnv))
                    EXCEPT !.mode_x = TRUE])]
    /\ pc' = "boilerplate"
    /\ UNCHANGED <<sched, state, config, fs, pbsLocals, raised, cmdCalls, rc, runVars>>

\* make_submit_file up to the +TransferOutput line
Condor_Boilerplate ==
    /\ sched = "Condor" /\ pc = "boilerplate"
    /\ files' = [files EXCEPT !.submit = write_line(OpenW,
           (IF config.custom_header THEN << Line("custom_header", <<>>, <<>>) >> ELSE <<>>)
           \o << Line("output", <<>>, <<"/dev/null">>),
                 Line("error", <<>>, <<"/dev/null">>),
                 Line("log", <<>>, <<"log">>),
                 Line("notification", <<>>, <<"never">>),
                 Line("should_transfer_files", <<>>, <<"YES">>),
                 Line("when_to_transfer_output", <<>>, <<"ON_EXIT">>),
                 Line("", <<>>, <<>>),
                 Line("executable", <<>>, <<"env_wrapper">>),
                 Line("+TransferOutput", <<>>, <<"">>) >>)]
    /\ pc' = "executable"
    /\ UNCHANGED <<sched, state, config, fs, pbsLocals, raised, cmdCalls, rc, runVars>>

\* the isfile test of the executable: the transfer_input_files directive or the error
Condor_Executable ==
    /\ sched = "Condor" /\ pc = "executable"
    /\ IF ExecutableIsFile
         THEN /\ files' = [files EXCEPT !.submit =
                     write_line(@, << Line("transfer_input_files", <<>>, <<"executable">>) >>)]
              /\ raised' = raised
              /\ pc' = "tarball"
         ELSE /\ files' = [files EXCEPT !.submit = Close(@)]
              /\ raised' = "no executable provided"
              /\ pc' = "done"
    /\ UNCHANGED <<sched, state, config, fs, pbsLocals, cmdCalls, rc, runVars>>

\* the tarball branch: f.write(','+path) names the undefined variable path, so the
\* branch taken when the tarball exists raises NameError
Condor_Tarball ==
    /\ sched = "Condor" /\ pc = "tarball"
    /\ IF config.tarball
         THEN /\ files' = [files EXCEPT !.submit = Close(@)]
              /\ raised' = IF TarballIsFile THEN "NameError"
                           ELSE "provided tarball does not exist"
              /\ pc' = "done"
         ELSE /\ files' = files
              /\ raised' = raised
              /\ pc' = "requests"
    /\ UNCHANGED <<sched, state, config, fs, pbsLocals, cmdCalls, rc, runVars>>

\* custom_body and the request_* directives
request_lines(st) ==
    (IF st.cpus # 0 THEN << Line("request_cpus", <<st.cpus>>, <<>>) >> ELSE <<>>)
    \o (IF st.memory # 0
          THEN << Line("request_memory", <<TimesOnePointOne(st.memory)>>, <<>>) >>
          ELSE <<>>)
    \o (IF st.disk # 0
          THEN << Line("request_disk", <<TimesOnePointOne(st.disk * 1024)>>, <<>>) >>
          ELSE <<>>)
    \o (IF st.gpus # 0 THEN << Line("request_gpus", <<st.gpus>>, <<>>) >> ELSE <<>>)

Condor_Requests ==
    /\ sched = "Condor" /\ pc = "requests"
    /\ files' = [files EXCEPT !.submit = write_line(@,
           (IF config.custom_body THEN << Line("custom_body", <<>>, <<>>) >> ELSE <<>>)
           \o << Line("", <<>>, <<>>) >>
           \o request_lines(state))]
    /\ pc' = "queue"
    /\ UNCHANGED <<sched, state, config, fs, pbsLocals, raised, cmdCalls, rc, runVars>>

\* custom_footer, the queue line, and the end of the with-block
Condor_Queue ==
    /\ sched = "Condor" /\ pc = "queue"
    /\ files' = [files EXCEPT !.submit = Close(write_line(@,
           (IF config.custom_footer THEN << Line("custom_footer", <<>>, <<>>) >> ELSE <<>>)
           \o << Line("queue", <<>>, <<>>) >>))]
    /\ pc' = "call"
    /\ UNCHANGED <<sched, state, config, fs, pbsLocals, raised, cmdCalls, rc, runVars>>

-----------------------------------------------------------------------------
(* One run of the generated environment wrapper on a worker node *)

Digits == {"0", "1", "2", "3", "4", "5", "6", "7", "8", "9"}

\* sed "s/\"//g"
StripQuotes(s) == SelectSeq(s, LAMBDA c : c # "\"")

\* sed 's/[0-9]*//g'
StripDigits(s) == SelectSeq(s, LAMBDA c : c \notin Digits)

\* [ -z $X ] for a value without blanks
IsEmpty(s) == s = <<>>

\* [ "$GPUS" = "10000" ] || [ "$GPUS" = "CUDA10000" ]
IsSentinelBug(s) == s = <<"1", "0", "0", "0", "0">>
IsSentinel(s) ==
    \/ s = <<"1", "0", "0", "0", "0">>
    \/ s = <<"C", "U", "D", "A", "1", "0", "0", "0", "0">>

CUDA == <<"C", "U", "D", "A">>

\* GPUS=$(grep -e "^AssignedGPUs" $_CONDOR_MACHINE_AD|awk ...|sed "s/\"//g")
Run_Read ==
    /\ sched = "Wrapper" /\ pc = "w_read"
    /\ GPUS' = StripQuotes(ad)
    /\ pc' = "w_fallback"
    /\ UNCHANGED <<sched, state, config, fs, pbsLocals, files, raised, cmdCalls, rc,
                   ad, CUDA_VISIBLE_DEVICES, GPUS_NO_DIGITS>>

\* if ( [ -z $GPUS ] && [ ! -z $CUDA_VISIBLE_DEVICES ] ); then GPUS=$CUDA_VISIBLE_DEVICES
Run_Fallback ==
    /\ sched = "Wrapper" /\ pc = "w_fallback"
    /\ GPUS' = IF IsEmpty(GPUS) /\ ~IsEmpty(CUDA_VISIBLE_DEVICES)
                 THEN CUDA_VISIBLE_DEVICES ELSE GPUS
    /\ pc' = "w_nodigits"
    /\ UNCHANGED <<sched, state, config, fs, pbsLocals, files, raised, cmdCalls, rc,
                   ad, CUDA_VISIBLE_DEVICES, GPUS_NO_DIGITS>>

\* GPUS_NO_DIGITS=$(echo $GPUS | sed 's/[0-9]*//g')
Run_NoDigits ==
    /\ sched = "Wrapper" /\ pc = "w_nodigits"
    /\ GPUS_NO_DIGITS' = StripDigits(GPUS)
    /\ pc' = "w_classify"
    /\ UNCHANGED <<sched, state, config, fs, pbsLocals, files, raised, cmdCalls, rc,
                   ad, CUDA_VISIBLE_DEVICES, GPUS>>

\* if [ "${GPUS_NO_DIGITS}" = "${GPUS}" ]; then GPUS=""
\* elif [ -z $GPUS_NO_DIGITS ]; then GPUS="CUDA${GPUS}"
Run_Classify ==
    /\ sched = "Wrapper" /\ pc = "w_classify"
    /\ GPUS' = IF GPUS_NO_DIGITS = GPUS THEN <<>>
               ELSE IF IsEmpty(GPUS_NO_DIGITS) THEN CUDA \o GPUS
               ELSE GPUS
    /\ pc' = "w_sentinel"
    /\ UNCHANGED <<sched, state, config, fs, pbsLocals, files, raised, cmdCalls, rc,
                   ad, CUDA_VISIBLE_DEVICES, GPUS_NO_DIGITS>>

\* if ( [ -z $GPUS ] || [ "$GPUS" = "10000" ] || [ "$GPUS" = "CUDA10000" ] ); then GPUS=0
\* followed by env -i ... GPUS=$GPUS ... <executable>
Run_Sentinel ==
    /\ sched = "Wrapper" /\ pc = "w_sentinel"
    /\ GPUS' = IF IsEmpty(GPUS) \/ IsSentinel(GPUS) THEN <<"0">> ELSE GPUS
    /\ pc' = "w_exec"
    /\ UNCHANGED <<sched, state, config, fs, pbsLocals, files, raised, cmdCalls, rc,
                   ad, CUDA_VISIBLE_DEVICES, GPUS_NO_DIGITS>>

-----------------------------------------------------------------------------
(* Initial states *)

Memories == 0..MaxMemory

Requests ==
    [cpus : 0..MaxCpus, memory : Memories, disk : 0..MaxDisk, gpus : 0..MaxGpus,
     cvmfs : BOOLEAN]

\* the request of the specification's PBS scenario: 5000 MB on 2048 MB cores
ScenarioRequests ==
    [cpus : 0..MaxCpus, memory : {5000}, disk : 0..MaxDisk, gpus : 0..MaxGpus,
     cvmfs : BOOLEAN]

NoConfig ==
    [mem_per_core |-> 1, walltime_hrs |-> 14, tarball |-> FALSE,
     custom_header |-> FALSE, custom_middle |-> FALSE, custom_end |-> FALSE,
     custom_body |-> FALSE, custom_footer |-> FALSE, CustomEnv |-> FALSE]

PBSConfigs(mem_per_cores) ==
    { [NoConfig EXCEPT !.mem_per_core = m, !.tarball = t, !.custom_header = h,
                       !.custom_middle = mi, !.custom_end = e] :
        m \in mem_per_cores, t \in BOOLEAN, h \in BOOLEAN, mi \in BOOLEAN,
        e \in BOOLEAN }

CondorConfigs ==
    { [NoConfig EXCEPT !.tarball = t, !.custom_header = h, !.custom_body = b,
                       !.custom_footer = f, !.CustomEnv = ce] :
        t \in BOOLEAN, h \in BOOLEAN, b \in BOOLEAN, f \in BOOLEAN, ce \in BOOLEAN }

Idle ==
    /\ num_cpus = 0 /\ mem = 0 /\ mem_bound = FALSE
    /\ files = [submit |-> NoFile, wrapper |-> NoFile]
    /\ raised = "none" /\ cmdCalls = 0 /\ rc = NoRc

NoRun ==
    /\ ad = <<>> /\ CUDA_VISIBLE_DEVICES = <<>> /\ GPUS = <<>> /\ GPUS_NO_DIGITS = <<>>

InitPBS ==
    /\ sched = "PBS" /\ pc = "open"
    /\ \/ state \in {r \in Requests : r.disk = 0} /\ config \in PBSConfigs(1..MaxMemPerCore)
       \/ state \in {r \in ScenarioRequests : r.disk = 0} /\ config \in PBSConfigs({2048})
    /\ fs = [executable |-> TRUE, tarball |-> TRUE]
    /\ Idle /\ NoRun

InitCondor ==
    /\ sched = "Condor" /\ pc = "wrapper"
    /\ state \in {r \in Requests \cup ScenarioRequests : r.cvmfs}
    /\ config \in CondorConfigs
    /\ fs \in [executable : BOOLEAN, tarball : BOOLEAN]
    /\ Idle /\ NoRun

Alphabet == {"0", "1", "C"}

Strings(n) == UNION { [1..k -> Alphabet] : k \in 0..n }

Fields ==
    Strings(MaxFieldLen)
    \cup { <<"1", "0", "0", "0", "0">>, CUDA \o <<"1", "0", "0", "0", "0">>,
           CUDA \o <<"0">>, CUDA \o <<"1">>, <<"1", "0", "0", "0", "0", "0">> }

Quoted(s) == <<"\"">> \o s \o <<"\"">>

InitWrapper ==
    /\ sched = "Wrapper" /\ pc = "w_read"
    /\ state = [cpus |-> 0, memory |-> 0, disk |-> 0, gpus |-> 0, cvmfs |-> FALSE]
    /\ config = NoConfig
    /\ fs = [executable |-> TRUE, tarball |-> TRUE]
    /\ Idle
    /\ \E s \in Fields : ad \in {s, Quoted(s)}
    /\ CUDA_VISIBLE_DEVICES \in {<<>>, <<"0">>, <<"1", "0", "0", "0", "0">>}
    /\ GPUS = <<>> /\ GPUS_NO_DIGITS = <<>>

NextPBS ==
    \/ PBS_Open \/ PBS_Loop \/ PBS_Resolve \/ PBS_Header \/ PBS_Custom
    \/ PBS_Variables \/ PBS_Glidein \/ Call

Init == InitPBS \/ InitCondor \/ InitWrapper

Next ==
    \/ PBS_Open \/ PBS_Loop \/ PBS_Resolve \/ PBS_Header \/ PBS_Custom
    \/ PBS_Variables \/ PBS_Glidein \/ Call
    \/ make_env_wrapper \/ Condor_Boilerplate \/ Condor_Executable \/ Condor_Tarball
    \/ Condor_Requests \/ Condor_Queue
    \/ Run_Read \/ Run_Fallback \/ Run_NoDigits \/ Run_Classify \/ Run_Sentinel

Spec == Init /\ [][Next]_vars

\* the interpreter runs the single thread of SubmitPBS.submit until it returns or raises
FairSpecPBS == InitPBS /\ [][NextPBS]_vars /\ WF_vars(NextPBS)

-----------------------------------------------------------------------------
(* Properties *)

PBSFile == files.submit
CondorFile == files.submit

\* the processor count of the "#PBS -l nodes=..:ppn=.." directive
Ppn == TheLine(PBSFile, "nodes").n[2]

\* the value of the "#PBS -l mem=..mb,pmem=..mb" directive (both numbers)
MemDirective == TheLine(PBSFile, "mem").n

\* v is x * 1.1 truncated toward zero
IsTruncatedPadding(v, x) == 10 * v <= 11 * x /\ 11 * x < 10 * (v + 1)

\* v is x * 1.1 rounded to the nearest integer
IsRoundedPadding(v, x) == 10 * v - 5 <= 11 * x /\ 11 * x <= 10 * v + 5

\* C1: for a request without gpus the cpu count never drops below state.cpus, and
\* once the escalation loop has ended it is the smallest n >= state.cpus with
\* n * mem_per_core >= state.memory; that count is the ppn of the nodes directive.
C1_CpuEscalation ==
    (sched = "PBS" /\ state.gpus = 0 /\ pc # "open") =>
        /\ num_cpus >= state.cpus
        /\ pc # "loop" =>
             /\ num_cpus * config.mem_per_core >= state.memory
             /\ \/ num_cpus = state.cpus
                \/ (num_cpus - 1) * config.mem_per_core < state.memory
        /\ HasLine(PBSFile, "nodes") => Ppn = num_cpus

C1_Witness ==
    /\ sched = "PBS" /\ pc = "done" /\ state.gpus = 0
    /\ state.cpus = 2 /\ state.memory = 5000 /\ config.mem_per_core = 2048
    /\ HasLine(PBSFile, "nodes") /\ Ppn = 3

\* the submit file has been generated: make_submit_file returned or raised
CondorGenerated == sched = "Condor" /\ pc \in {"call", "done"}

\* C2: with the executable on disk and the tarball, when configured, on disk too,
\* make_submit_file succeeds and transfer_input_files lists the executable and
\* then the tarball; without a configured tarball it lists the executable only.
C2_TransferInputFiles ==
    (CondorGenerated /\ fs.executable /\ (config.tarball => fs.tarball)) =>
        /\ raised \notin {"NameError", "no executable provided",
                          "provided tarball does not exist"}
        /\ HasLine(CondorFile, "queue")
        /\ HasLine(CondorFile, "transfer_input_files")
        /\ TheLine(CondorFile, "transfer_input_files").s =
             IF config.tarball THEN <<"executable", "tarball">> ELSE <<"executable">>

\* C3: a missing executable, or a configured but missing tarball, raises the fatal
\* error before the queue line is written, and the submit command never runs.
C3_MissingArtifact ==
    (sched = "Condor" /\ (~fs.executable \/ (config.tarball /\ ~fs.tarball))) =>
        /\ cmdCalls = 0
        /\ pc # "call"
        /\ ~HasLine(CondorFile, "queue")
        /\ pc = "done" =>
             raised = IF ~fs.executable THEN "no executable provided"
                      ELSE "provided tarball does not exist"

C3_Witness ==
    /\ sched = "Condor" /\ pc = "done" /\ fs.executable /\ config.tarball /\ ~fs.tarball
    /\ raised = "provided tarball does not exist"
    /\ HasLine(CondorFile, "transfer_input_files")
    /\ cmdCalls = 0

\* a generated file is written to its last line and closed
WrapperComplete ==
    /\ files.wrapper.created /\ ~files.wrapper.open /\ files.wrapper.mode_x
    /\ files.wrapper.lines = env_wrapper_script(config.CustomEnv)

SubmitFileComplete ==
    /\ files.submit.created /\ ~files.submit.open
    /\ IF sched = "PBS"
         THEN /\ CountLines(files.submit, "run") = 1
              /\ HasLine(files.submit, "MEMORY")
              /\ config.custom_end => HasLine(files.submit, "custom_end")
         ELSE /\ Len(files.submit.lines) > 0
              /\ files.submit.lines[Len(files.submit.lines)].k = "queue"

\* C4: the submit command runs at most once, and only after every generated file
\* is completely written and closed (Condor: wrapper, then submit file, then the
\* command); a nonzero exit raises 'failed to launch glidein' with the files left
\* in place and no second call, a zero exit raises nothing.
C4_SubmitOrder ==
    /\ cmdCalls <= 1
    /\ cmdCalls = 1 => pc = "done"
    /\ (sched = "Condor" /\ files.submit.created) => WrapperComplete
    /\ (pc = "call" \/ cmdCalls = 1) =>
         /\ SubmitFileComplete
         /\ sched = "Condor" => WrapperComplete
    /\ cmdCalls = 1 =>
         /\ rc # 0 => raised = "failed to launch glidein"
         /\ rc = 0 => raised = "none"
    /\ raised = "failed to launch glidein" => cmdCalls = 1 /\ rc # 0

C4_Witness ==
    /\ sched = "Condor" /\ pc = "done" /\ cmdCalls = 1 /\ rc = 1
    /\ raised = "failed to launch glidein"
    /\ WrapperComplete /\ SubmitFileComplete

\* the request_* directives have been written
RequestsWritten ==
    sched = "Condor" /\ (pc \in {"queue", "call"} \/ HasLine(CondorFile, "queue"))

\* C5 as stated: request_memory is round(memory * 1.1), request_disk is
\* round(disk * 1024 * 1.1), each omitted when its input is 0.
C5_Rounded ==
    RequestsWritten =>
        /\ HasLine(CondorFile, "request_memory") <=> state.memory # 0
        /\ HasLine(CondorFile, "request_disk") <=> state.disk # 0
        /\ state.memory # 0 =>
             IsRoundedPadding(TheLine(CondorFile, "request_memory").n[1], state.memory)
        /\ state.disk # 0 =>
             IsRoundedPadding(TheLine(CondorFile, "request_disk").n[1], state.disk * 1024)

\* C5 amended: request_memory is memory * 1.1 truncated toward zero, request_disk
\* is disk * 1024 * 1.1 truncated toward zero, each omitted when its input is 0.
C5_Truncated ==
    RequestsWritten =>
        /\ HasLine(CondorFile, "request_memory") <=> state.memory # 0
        /\ HasLine(CondorFile, "request_disk") <=> state.disk # 0
        /\ state.memory # 0 =>
             IsTruncatedPadding(TheLine(CondorFile, "request_memory").n[1], state.memory)
        /\ state.disk # 0 =>
             IsTruncatedPadding(TheLine(CondorFile, "request_disk").n[1], state.disk * 1024)

C5_Witness ==
    /\ RequestsWritten /\ pc = "done" /\ state.memory = 7 /\ state.disk = 1
    /\ TheLine(CondorFile, "request_memory").n[1] = 7
    /\ TheLine(CondorFile, "request_disk").n[1] = 1126

\* C6: for a gpu request the cpu count stays state.cpus, the effective memory is
\* state.memory, and the mem/pmem directive is (memory / cpus) * 1.1 (as the %d
\* format prints it).
C6_GpuMemory ==
    (sched = "PBS" /\ state.gpus > 0 /\ pc = "done") =>
        /\ num_cpus = state.cpus
        /\ mem_bound /\ mem = state.memory
        /\ HasLine(PBSFile, "nodes") /\ Ppn = state.cpus
        /\ HasLine(PBSFile, "mem")
        /\ \A i \in 1..2 :
             /\ 10 * state.cpus * MemDirective[i] <= 11 * state.memory
             /\ 11 * state.memory < 10 * state.cpus * (MemDirective[i] + 1)

\* C6 restricted to requests with at least one cpu, where the code reaches the directive
C6_GpuMemoryWithCpus ==
    (sched = "PBS" /\ state.gpus > 0 /\ state.cpus >= 1 /\ pc = "done") =>
        /\ num_cpus = state.cpus
        /\ mem_bound /\ mem = state.memory
        /\ HasLine(PBSFile, "nodes") /\ Ppn = state.cpus
        /\ HasLine(PBSFile, "mem")
        /\ \A i \in 1..2 :
             /\ 10 * state.cpus * MemDirective[i] <= 11 * state.memory
             /\ 11 * state.memory < 10 * state.cpus * (MemDirective[i] + 1)

-----------------------------------------------------------------------------
(* Properties of the wrapper run *)

Field == StripQuotes(ad)

AllDigits(s) == s # <<>> /\ \A i \in 1..Len(s) : s[i] \in Digits
NoDigit(s) == \A i \in 1..Len(s) : s[i] \notin Digits

Sentinels == { <<"1", "0", "0", "0", "0">>, CUDA \o <<"1", "0", "0", "0", "0">> }

WrapperExported == sched = "Wrapper" /\ pc = "w_exec" /\ CUDA_VISIBLE_DEVICES = <<>>

\* C7 as stated: digits only gives CUDA<digits>; an empty or non-numeric field
\* gives GPUS=""; the sentinels 10000 and CUDA10000 give GPUS=0.
C7_AsStated ==
    WrapperExported =>
        /\ (AllDigits(Field) /\ Field \notin Sentinels) => GPUS = CUDA \o Field
        /\ (~AllDigits(Field) /\ Field \notin Sentinels) => GPUS = <<>>
        /\ Field \in Sentinels => GPUS = <<"0">>

\* C7 amended: digits only gives CUDA<digits>; the sentinels 10000 and CUDA10000,
\* the empty field and any field without a digit give the exported GPUS=0; a field
\* that mixes digits with other characters is exported unchanged.
C7_Sanitized ==
    WrapperExported =>
        /\ (AllDigits(Field) /\ Field \notin Sentinels) => GPUS = CUDA \o Field
        /\ NoDigit(Field) => GPUS = <<"0">>
        /\ Field \in Sentinels => GPUS = <<"0">>
        /\ (~AllDigits(Field) /\ ~NoDigit(Field) /\ Field \notin Sentinels) => GPUS = Field

C7_Witness ==
    /\ WrapperExported /\ ad = <<"\"", "0", "\"">> /\ GPUS = CUDA \o <<"0">>

-----------------------------------------------------------------------------

C9_CpuMemory ==
    (sched = "PBS" /\ state.gpus = 0 /\ pc = "done") =>
        /\ mem_bound /\ mem = num_cpus * config.mem_per_core
        /\ HasLine(PBSFile, "mem")
        /\ MemDirective = <<config.mem_per_core, config.mem_per_core>>
        /\ HasLine(PBSFile, "MEMORY")
        /\ TheLine(PBSFile, "MEMORY").n[1] = Ppn * config.mem_per_core

\* C9 restricted to requests whose chosen cpu count is not 0
C9_CpuMemoryWithCpus ==
    (sched = "PBS" /\ state.gpus = 0 /\ pc = "done"
       /\ (state.cpus >= 1 \/ state.memory >= 1)) =>
        /\ mem_bound /\ mem = num_cpus * config.mem_per_core
        /\ HasLine(PBSFile, "mem")
        /\ MemDirective = <<config.mem_per_core, config.mem_per_core>>
        /\ HasLine(PBSFile, "MEMORY")
        /\ TheLine(PBSFile, "MEMORY").n[1] = Ppn * config.mem_per_core

\* C10: the cpu escalation ends, mem is assigned whenever the header is about to be
\* emitted, and header emission is reached in every run of the PBS generator.
C10_HeaderReached ==
    /\ [](pc = "header" => mem_bound)
    /\ <>(pc = "header")

C10_Witness ==
    /\ sched = "PBS" /\ pc = "header" /\ mem_bound /\ state.gpus = 0
    /\ num_cpus = state.cpus + 3

=============================================================================
